---- MODULE Spec2Model ----
(***************************************************************************)
(* pandasaddons: plotting.py (setcol, heatmap_df, plot_df, iplot) and      *)
(* randomdf.py (RandomDataFrame.__init__) as a state machine.  Every call  *)
(* is one step: a state with pc = "call" holds the arguments of one        *)
(* pending call, the step applies the function and stores what it built    *)
(* in ret.                                                                 *)
(*                                                                         *)
(* Python values:                                                          *)
(*   str       a sequence of one-character strings, <<"c","o","l","0">>    *)
(*   label     [t |-> "int", i |-> n], [t |-> "str", s |-> chars] or a     *)
(*             Timestamp [t |-> "ts", Y, m, d, H, M, S]                    *)
(*   float     [cls |-> "nan"], [cls |-> "inf", v |-> -1 or 1],            *)
(*             [cls |-> "fin", v |-> n], the finite float n / 4            *)
(*   DataFrame [index |-> [kind, vals], columns |-> labels,                *)
(*              values |-> sequence of rows]                               *)
(***************************************************************************)
EXTENDS Integers, Sequences, FiniteSets, TLC

VARIABLES op, args, pc, ret

vars == <<op, args, pc, ret>>

(* ---------------------------- bounds ---------------------------------- *)

MaxRows == 2

MaxCols == 2

MaxAbs == 50

MaxNames == 2

(* ---------------------------- Python str ------------------------------ *)

\* The characters the model uses, in code point order.
Alphabet ==
    <<" ", "-", "/", "0", "1", "2", "3", "4", "5", "6", "7", "8", "9", ":",
      "A", "B", "C", "D", "E", "F", "G", "H", "I", "J", "K", "L", "M",
      "N", "O", "P", "Q", "R", "S", "T", "U", "V", "W", "X", "Y", "Z",
      "a", "b", "c", "d", "e", "f", "g", "h", "i", "j", "k", "l", "m",
      "n", "o", "p", "q", "r", "s", "t", "u", "v", "w", "x", "y", "z">>

Ord(c) == CHOOSE k \in 1..Len(Alphabet) : Alphabet[k] = c

IsUpper(c) == Ord(c) >= Ord("A") /\ Ord(c) <= Ord("Z")

\* str.lower() on one character, then on a whole str.
LowerChar(c) == IF IsUpper(c) THEN Alphabet[Ord(c) - Ord("A") + Ord("a")] ELSE c

Lower(s) == [k \in 1..Len(s) |-> LowerChar(s[k])]

Digits == <<"0", "1", "2", "3", "4", "5", "6", "7", "8", "9">>

RECURSIVE StrNat(_)
StrNat(n) == IF n < 10 THEN <<Digits[n + 1]>>
             ELSE StrNat(n \div 10) \o <<Digits[(n % 10) + 1]>>

\* str(n) of an integer.
StrInt(n) == IF n < 0 THEN <<"-">> \o StrNat(-n) ELSE StrNat(n)

\* %d, %m, %H, %M, %S: two digits, zero padded.  %Y: four digits.
Pad2(n) == IF n < 10 THEN <<"0">> \o StrNat(n) ELSE StrNat(n)

Pad4(n) == IF n < 10 THEN <<"0", "0", "0">> \o StrNat(n)
           ELSE IF n < 100 THEN <<"0", "0">> \o StrNat(n)
           ELSE IF n < 1000 THEN <<"0">> \o StrNat(n)
           ELSE StrNat(n)

Text(s) == [t |-> "str", s |-> s]

None == [t |-> "None"]

\* A Python list argument that may also be None.
List(items) == [t |-> "list", items |-> items]

\* d.strftime('%d/%m/%Y %H:%M:%S')
Strftime(d) ==
    Text(Pad2(d.d) \o <<"/">> \o Pad2(d.m) \o <<"/">> \o Pad4(d.Y) \o <<" ">> \o
         Pad2(d.H) \o <<":">> \o Pad2(d.M) \o <<":">> \o Pad2(d.S))

\* str(label): an int prints its digits, a str is itself, a Timestamp
\* prints as YYYY-MM-DD HH:MM:SS.
Str(l) ==
    IF l.t = "int" THEN Text(StrInt(l.i))
    ELSE IF l.t = "str" THEN l
    ELSE Text(Pad4(l.Y) \o <<"-">> \o Pad2(l.m) \o <<"-">> \o Pad2(l.d) \o <<" ">> \o
              Pad2(l.H) \o <<":">> \o Pad2(l.M) \o <<":">> \o Pad2(l.S))

(* ---------------------------- floats ---------------------------------- *)

NaN == [cls |-> "nan"]

Inf(sgn) == [cls |-> "inf", v |-> sgn]

\* The finite float n / 4.
Fin(n) == [cls |-> "fin", v |-> n]

\* The float of a whole number.
Whole(n) == Fin(4 * n)

\* np.isnan(x)
isnan(x) == x.cls = "nan"

\* x < 0: every comparison with NaN is False, -inf is below zero.
LtZero(x) == x.cls # "nan" /\ x.v < 0

(* ---------------------------- plotting.py ----------------------------- *)

COLORS ==
    <<"#1f77b4", "#ff7f0e", "#ffbb78", "#2ca02c", "#98df8a", "#d62728",
      "#ff9896", "#9467bd", "#c5b0d5", "#8c564b", "#c49c94", "#e377c2",
      "#f7b6d2", "#7f7f7f", "#bcbd22", "#dbdb8d", "#17becf", "#9edae5">>

TOOLS == <<"pan", "wheel_zoom", "box_zoom", "resize", "reset", "previewsave",
           "box_select", "hover">>

Contains(seq, e) == \E k \in 1..Len(seq) : seq[k] = e

Reversed(seq) == [k \in 1..Len(seq) |-> seq[Len(seq) + 1 - k]]

setcol_le(x) ==
    IF isnan(x) THEN "#e2e2e2"
    ELSE IF LtZero(x) \/ (x.cls = "fin" /\ x.v = 0) THEN "#cc7878"
    ELSE "#a5bab7"

setcol_finite(x) ==
    IF isnan(x) THEN "#e2e2e2"
    ELSE IF x.cls = "fin" /\ x.v < 0 THEN "#cc7878"
    ELSE "#a5bab7"

setcol(x) ==
    IF isnan(x) THEN "#e2e2e2"
    ELSE IF LtZero(x) THEN "#cc7878"
    ELSE "#a5bab7"

\* df.values.ravel(): the rows one after another.
RECURSIVE ravel(_)
ravel(values) == IF values = <<>> THEN <<>>
                 ELSE Head(values) \o ravel(Tail(values))

\* The nested loop of heatmap_df: for xi in x: for yi in y: append.  Step k
\* of the loop body (k = 1 .. len(x)*len(y)) has xi = x[OuterAt], yi = y[InnerAt].
OuterAt(k, ninner) == ((k - 1) \div ninner) + 1

InnerAt(k, ninner) == ((k - 1) % ninner) + 1

xs_colmajor(x, y) == [k \in 1..(Len(x) * Len(y)) |-> x[InnerAt(k, Len(x))]]

xs_of(x, y) == [k \in 1..(Len(x) * Len(y)) |-> x[OuterAt(k, Len(y))]]

ys_of(x, y) == [k \in 1..(Len(x) * Len(y)) |-> y[InnerAt(k, Len(y))]]

x_labels(df) == [k \in 1..Len(df.index.vals) |-> Str(df.index.vals[k])]

y_range_forward(y) == y

y_range_of(y) == Reversed(y)

value_colmajor(df) ==
    LET R == Len(df.values)
        C == Len(df.columns)
    IN  [k \in 1..(R * C) |-> df.values[InnerAt(k, R)][OuterAt(k, R)]]

value_of(df) == ravel(df.values)

heatmap_df(df, tools) ==
    LET x == x_labels(df)
        y == df.columns
        value == value_of(df)
        color == [k \in 1..Len(value) |-> setcol(value[k])]
    IN  [kind |-> "heatmap",
         source |-> [x |-> xs_of(x, y), y |-> ys_of(x, y),
                     color |-> color, value |-> value],
         x_range |-> x,
         y_range |-> y_range_of(y),
         tooltips |-> IF Contains(tools, "hover")
                      THEN <<"$x", "$y", "@value">> ELSE <<>>]

\* df[ts].values: the cells of the column labelled ts, one per row.
column_as_row(df, ts) ==
    LET j == CHOOSE c \in 1..Len(df.columns) : df.columns[c] = ts
    IN  IF j <= Len(df.values) THEN df.values[j] ELSE <<>>

column_values(df, ts) ==
    LET j == CHOOSE c \in 1..Len(df.columns) : df.columns[c] = ts
    IN  [i \in 1..Len(df.values) |-> df.values[i][j]]

\* info: the index itself, or its timestamps formatted for the tooltip.
info_of(df) ==
    IF df.index.kind = "DatetimeIndex"
    THEN [k \in 1..Len(df.index.vals) |-> Strftime(df.index.vals[k])]
    ELSE df.index.vals

\* for idx, ts in enumerate(df): the column labels in column order.
enumerate_df(df) == df.columns

plot_df(df, tools, style) ==
    LET cols == enumerate_df(df)
        info == info_of(df)
    IN  [kind |-> "line",
         series |-> [idx \in 1..Len(cols) |->
                       [legend |-> cols[idx],
                        x |-> df.index.vals,
                        y |-> column_values(df, cols[idx]),
                        info |-> info,
                        line_color |-> COLORS[((idx - 1) % Len(COLORS)) + 1],
                        circle |-> (style = "o-")]],
         tooltips |-> IF Len(cols) > 0 /\ Contains(tools, "hover")
                      THEN <<"@info", "$y">> ELSE <<>>]

HEATMAP == <<"h", "e", "a", "t", "m", "a", "p">>

\* The test of iplot: plottype.lower() == 'heatmap'.
is_heatmap_exact(plottype) == plottype = HEATMAP

is_heatmap(plottype) == Lower(plottype) = HEATMAP

\* jspath if jspath else os.environ['TMP']: None and '' are falsy.
Truthy(s) == s # None /\ s # Text(<<>>)

\* iplot up to the point where it returns or raises.  u is the uuid4 drawn
\* for the file name, environ the process environment.
iplot(self, plottype, jspath, tools, style, environ, u) ==
    LET plot == IF is_heatmap(plottype)
                THEN heatmap_df(self, tools)
                ELSE plot_df(self, tools, style)
    IN  IF ~Truthy(jspath) /\ environ.TMP = None
        THEN [raised |-> "KeyError", plot |-> plot]
        ELSE LET this_jspath == IF Truthy(jspath) THEN jspath ELSE environ.TMP
                 jsfilename == [dir |-> this_jspath, name |-> u, ext |-> ".js"]
                 htmlfilename == [dir |-> this_jspath, name |-> u, ext |-> ".html"]
             IN  [raised |-> "no",
                  plot |-> plot,
                  written |-> {jsfilename, htmlfilename},
                  opened |-> htmlfilename]

(* ---------------------------- randomdf.py ---------------------------- *)

IsLeap(Y) == (Y % 4 = 0 /\ Y % 100 # 0) \/ Y % 400 = 0

DaysInMonth(Y, m) ==
    IF m = 2 THEN (IF IsLeap(Y) THEN 29 ELSE 28)
    ELSE IF m \in {4, 6, 9, 11} THEN 30 ELSE 31

NextDay(ts) ==
    IF ts.d < DaysInMonth(ts.Y, ts.m) THEN [ts EXCEPT !.d = ts.d + 1]
    ELSE IF ts.m < 12 THEN [ts EXCEPT !.d = 1, !.m = ts.m + 1]
    ELSE [ts EXCEPT !.d = 1, !.m = 1, !.Y = ts.Y + 1]

\* pd.date_range(start, periods=n, freq='D'): n consecutive days.
RECURSIVE date_range(_, _, _)
date_range(start, periods, freq) ==
    IF periods <= 0 THEN <<>>
    ELSE <<start>> \o date_range(NextDay(start), periods - 1, freq)

DATETIME == <<"d", "a", "t", "e", "t", "i", "m", "e">>

COL == <<"c", "o", "l">>

\* ['col'+str(i) for i in range(rng_start, stop)]
generated(rng_start, stop) ==
    IF stop <= rng_start THEN <<>>
    ELSE [k \in 1..(stop - rng_start) |-> Text(COL \o StrInt(rng_start + k - 1))]

\* seq[:n] for n >= 0
Slice(seq, n) == IF n >= Len(seq) THEN seq ELSE SubSeq(seq, 1, n)

columns_unsliced(size, columns) ==
    LET _columns == IF columns = None THEN <<>> ELSE columns.items
        rng_start == IF columns = None THEN 0 ELSE Len(columns.items)
    IN  _columns \o generated(rng_start, size[2])

\* _columns of RandomDataFrame.__init__
columns_of(size, columns) ==
    LET _columns == IF columns = None THEN <<>> ELSE columns.items
        rng_start == IF columns = None THEN 0 ELSE Len(columns.items)
    IN  Slice(_columns \o generated(rng_start, size[2]), size[2])

\* _index of RandomDataFrame.__init__; today is datetime.today().date()
index_of(size, index_type, start_date, freq, today) ==
    IF Lower(index_type) = DATETIME
    THEN LET _startdate == IF start_date # None THEN start_date ELSE today
             _freq == IF Truthy(freq) THEN freq ELSE Text(<<"D">>)
         IN  [kind |-> "DatetimeIndex",
              vals |-> date_range(_startdate, size[1], _freq)]
    ELSE None

\* RandomDataFrame.__init__: values is what np.random.rand(*size) drew.
\* DataFrame(values, columns, index=None) labels the rows 0 .. n-1.
RandomDataFrame(size, index_type, start_date, freq, columns, today, values) ==
    LET _index == index_of(size, index_type, start_date, freq, today)
    IN  [index |-> IF _index = None
                   THEN [kind |-> "Index",
                         vals |-> [k \in 1..size[1] |-> [t |-> "int", i |-> k - 1]]]
                   ELSE _index,
         columns |-> columns_of(size, columns),
         values |-> values]

(* ---------------------------- inputs ---------------------------------- *)

\* The floats handed to setcol.
Floats == {NaN, Inf(-1), Inf(1)} \cup {Fin(n) : n \in (-MaxAbs)..MaxAbs}

SeqsOf(S, n) == [1..n -> S]

Injective(seq) == \A a, b \in 1..Len(seq) : seq[a] = seq[b] => a = b

IntLabel(n) == [t |-> "int", i |-> n]

Timestamp(Y, m, d, H, M, S) ==
    [t |-> "ts", Y |-> Y, m |-> m, d |-> d, H |-> H, M |-> M, S |-> S]

RowLabels == {IntLabel(0), IntLabel(1), Text(<<"0">>)}

Timestamps == {Timestamp(2020, 1, 1, 0, 0, 0), Timestamp(2015, 5, 14, 13, 7, 9)}

ColLabels == {Text(<<"x">>), Text(<<"a">>), IntLabel(0), IntLabel(1)}

CellValues == {NaN, Whole(-5), Fin(1)}

Indexes(R) ==
    {[kind |-> "Index", vals |-> s] : s \in SeqsOf(RowLabels, R)} \cup
    {[kind |-> "DatetimeIndex", vals |-> s] : s \in SeqsOf(Timestamps, R)}

\* pandas' default labels: 0 .. n-1.
RangeLabels(n) == [k \in 1..n |-> IntLabel(k - 1)]

ColNames(C) == {s \in SeqsOf(ColLabels, C) : Injective(s)}

\* A value matrix whose cells all differ, negative, zero and positive.
GridValues(R, C) == [i \in 1..R |-> [j \in 1..C |-> Fin((i - 1) * C + j - 2)]]

Matrices(R, C, S) == SeqsOf(SeqsOf(S, C), R)

DefaultCols(C) == [k \in 1..C |-> Text(<<"c", "o", "l">> \o StrInt(k - 1))]

Shapes == (0..MaxRows) \X (0..MaxCols)

\* Tables of every shape with every labelling, over one value matrix.
LabelTables ==
    UNION {{[index |-> ix, columns |-> cs, values |-> GridValues(sh[1], sh[2])] :
              ix \in Indexes(sh[1]), cs \in ColNames(sh[2])} : sh \in Shapes}

\* Tables of every shape with every value matrix, under the default labels.
ValueTables ==
    UNION {{[index |-> [kind |-> "Index", vals |-> RangeLabels(sh[1])],
             columns |-> DefaultCols(sh[2]), values |-> m] :
              m \in Matrices(sh[1], sh[2], CellValues)} : sh \in Shapes}

\* Rows 2020-01-01 and 2020-01-02, column a = [1, -1].
ScenarioA ==
    [index |-> [kind |-> "DatetimeIndex",
                vals |-> <<Timestamp(2020, 1, 1, 0, 0, 0), Timestamp(2020, 1, 2, 0, 0, 0)>>],
     columns |-> <<Text(<<"a">>)>>,
     values |-> <<(<<Whole(1)>>), (<<Whole(-1)>>)>>]

\* Rows 0 and 1, column x = [NaN, -5].
ScenarioB ==
    [index |-> [kind |-> "Index", vals |-> RangeLabels(2)],
     columns |-> <<Text(<<"x">>)>>,
     values |-> <<(<<NaN>>), (<<Whole(-5)>>)>>]

Tables == LabelTables \cup ValueTables \cup {ScenarioA, ScenarioB}

\* One table per shape, for the calls whose other arguments vary.
ShapeTables ==
    {[index |-> [kind |-> "Index", vals |-> RangeLabels(sh[1])],
      columns |-> DefaultCols(sh[2]),
      values |-> GridValues(sh[1], sh[2])] : sh \in Shapes}

PlotTypes ==
    {<<"h", "e", "a", "t", "m", "a", "p">>,
     <<"H", "E", "A", "T", "M", "A", "P">>,
     <<"H", "e", "a", "t", "M", "a", "p">>,
     <<"h", "e", "a", "t", "m", "a", "p", "s">>,
     <<"h", "e", "a", "t">>,
     <<"l", "i", "n", "e", "a", "r">>,
     <<"b", "o", "g", "u", "s">>,
     <<>>}

Styles == {"o-", "-"}

JsPaths == {None, Text(<<>>), Text(<<"o", "u", "t">>)}

Environs == {[TMP |-> None], [TMP |-> Text(<<"t", "m", "p">>)]}

Uuids == {"uuid-a", "uuid-b"}

IndexTypes ==
    {<<"l", "i", "n", "e", "a", "r">>,
     <<"d", "a", "t", "e", "t", "i", "m", "e">>,
     <<"D", "a", "t", "e", "T", "i", "m", "e">>}

StartDates == {None, Timestamp(2015, 12, 31, 0, 0, 0)}

Freqs == {None, Text(<<"D">>)}

Todays == {Timestamp(2015, 5, 5, 0, 0, 0)}

Names == {Text(<<"A">>), Text(<<"c", "o", "l", "1">>)}

ColumnArgs == {None} \cup UNION {{List(s) : s \in SeqsOf(Names, n)} : n \in 0..MaxNames}

\* What np.random.rand draws: floats in [0, 1), here 0.0 and 0.75.
RandValues == {Fin(0), Fin(3)}

(* ---------------------------- the calls ------------------------------- *)

InitSetcol ==
    /\ op = "setcol"
    /\ \E x \in Floats : args = [x |-> x]

InitHeatmap ==
    /\ op = "heatmap_df"
    /\ \E df \in Tables : args = [df |-> df, tools |-> TOOLS]

InitPlot ==
    /\ op = "plot_df"
    /\ \E df \in Tables, style \in Styles :
          args = [df |-> df, tools |-> TOOLS, style |-> style]

InitIplot ==
    /\ op = "iplot"
    /\ \E df \in ShapeTables, plottype \in PlotTypes, jspath \in JsPaths,
          environ \in Environs :
          args = [self |-> df, plottype |-> plottype, jspath |-> jspath,
                  tools |-> TOOLS, style |-> "o-", environ |-> environ]

InitRandom ==
    /\ op = "RandomDataFrame"
    /\ \E size \in Shapes, index_type \in IndexTypes, start_date \in StartDates,
          freq \in Freqs, columns \in ColumnArgs :
          /\ (Lower(index_type) # DATETIME => start_date = None /\ freq = None)
          /\ args = [size |-> size, index_type |-> index_type,
                     start_date |-> start_date, freq |-> freq, columns |-> columns]

Init ==
    /\ pc = "call"
    /\ ret = None
    /\ \/ InitSetcol
       \/ InitHeatmap
       \/ InitPlot
       \/ InitIplot
       \/ InitRandom

CallSetcol ==
    /\ pc = "call" /\ op = "setcol"
    /\ ret' = setcol(args.x)
    /\ pc' = "done"
    /\ UNCHANGED <<op, args>>

CallHeatmapDf ==
    /\ pc = "call" /\ op = "heatmap_df"
    /\ ret' = heatmap_df(args.df, args.tools)
    /\ pc' = "done"
    /\ UNCHANGED <<op, args>>

CallPlotDf ==
    /\ pc = "call" /\ op = "plot_df"
    /\ ret' = plot_df(args.df, args.tools, args.style)
    /\ pc' = "done"
    /\ UNCHANGED <<op, args>>

CallIplot ==
    /\ pc = "call" /\ op = "iplot"
    /\ \E u \in Uuids :
          ret' = iplot(args.self, args.plottype, args.jspath, args.tools,
                       args.style, args.environ, u)
    /\ pc' = "done"
    /\ UNCHANGED <<op, args>>

CallRandomDataFrame ==
    /\ pc = "call" /\ op = "RandomDataFrame"
    /\ \E today \in Todays,
          values \in Matrices(args.size[1], args.size[2], RandValues) :
          ret' = RandomDataFrame(args.size, args.index_type, args.start_date,
                                 args.freq, args.columns, today, values)
    /\ pc' = "done"
    /\ UNCHANGED <<op, args>>

Next ==
    \/ CallSetcol
    \/ CallHeatmapDf
    \/ CallPlotDf
    \/ CallIplot
    \/ CallRandomDataFrame

Spec == Init /\ [][Next]_vars

(* ---------------------------- claims ---------------------------------- *)

Done(o) == pc = "done" /\ op = o

Missing == "#e2e2e2"

Negative == "#cc7878"

NonNegative == "#a5bab7"

\* C1: setcol returns the negative colour for every finite x < 0, the
\* non-negative colour for every finite x >= 0, zero included, and the
\* missing colour for not-a-number.
C1_SetcolClassifies ==
    Done("setcol") =>
        /\ (args.x.cls = "fin" /\ args.x.v < 0 => ret = Negative)
        /\ (args.x.cls = "fin" /\ args.x.v >= 0 => ret = NonNegative)
        /\ (args.x.cls = "nan" => ret = Missing)

C1_Witness == Done("setcol") /\ args.x = Fin(0) /\ ret = NonNegative

\* The cells of a table and the label pair each record of a heatmap source
\* should carry for them.
RowsOf(df) == 1..Len(df.index.vals)

ColsOf(df) == 1..Len(df.columns)

PairAt(df, i, j) == <<Str(df.index.vals[i]), df.columns[j]>>

RecordPair(src, k) == <<src.x[k], src.y[k]>>

\* C2: the heatmap source holds exactly R*C records, in row-major order,
\* and every (row label, column label) pair of the table is carried by as
\* many records as the table has cells with that pair: exactly one when
\* the labels differ, none omitted and none duplicated.
C2_HeatmapCrossProduct ==
    Done("heatmap_df") =>
        LET df == args.df
            src == ret.source
            R == Len(df.index.vals)
            C == Len(df.columns)
        IN  /\ Len(src.x) = R * C
            /\ Len(src.y) = R * C
            /\ \A i \in RowsOf(df), j \in ColsOf(df) :
                 /\ RecordPair(src, (i - 1) * C + j) = PairAt(df, i, j)
                 /\ Cardinality({k \in 1..Len(src.x) :
                                    RecordPair(src, k) = PairAt(df, i, j)})
                      = Cardinality({c \in RowsOf(df) \X ColsOf(df) :
                                    PairAt(df, c[1], c[2]) = PairAt(df, i, j)})
            /\ (Injective(ret.x_range) =>
                  \A i \in RowsOf(df), j \in ColsOf(df) :
                     Cardinality({k \in 1..Len(src.x) :
                                    RecordPair(src, k) = PairAt(df, i, j)}) = 1)

C2_Witness ==
    /\ Done("heatmap_df")
    /\ args.df.index.vals = <<IntLabel(1), Text(<<"0">>)>>
    /\ Len(args.df.columns) = 2
    /\ Len(ret.source.x) = 4

\* C3: the lists x, y, value and color of the heatmap source have one
\* length, and the record of the cell in row r and column c carries that
\* cell's value and setcol of that value.
C3_HeatmapAligned ==
    Done("heatmap_df") =>
        LET df == args.df
            src == ret.source
            C == Len(df.columns)
        IN  /\ Len(src.y) = Len(src.x)
            /\ Len(src.value) = Len(src.x)
            /\ Len(src.color) = Len(src.x)
            /\ \A i \in RowsOf(df), j \in ColsOf(df) :
                 LET k == (i - 1) * C + j
                 IN  /\ k <= Len(src.x)
                     /\ RecordPair(src, k) = PairAt(df, i, j)
                     /\ src.value[k] = df.values[i][j]
                     /\ src.color[k] = setcol(df.values[i][j])

C3_Witness ==
    /\ Done("heatmap_df")
    /\ args.df = ScenarioB
    /\ ret.source.x = <<Text(<<"0">>), Text(<<"1">>)>>
    /\ ret.source.y = <<Text(<<"x">>), Text(<<"x">>)>>
    /\ ret.source.value = <<NaN, Whole(-5)>>
    /\ ret.source.color = <<Missing, Negative>>

\* C4: plot_df builds exactly C series, one per column in column order,
\* each with R points (x the row index value, y the column's cell in that
\* row) and R tooltip labels; a table without rows or columns gives no
\* points or no series.
C4_LineSeries ==
    Done("plot_df") =>
        LET df == args.df
            R == Len(df.index.vals)
            C == Len(df.columns)
        IN  /\ Len(ret.series) = C
            /\ \A j \in 1..C :
                 LET srs == ret.series[j]
                 IN  /\ srs.legend = df.columns[j]
                     /\ Len(srs.x) = R
                     /\ Len(srs.y) = R
                     /\ Len(srs.info) = R
                     /\ \A i \in 1..R : /\ srs.x[i] = df.index.vals[i]
                                        /\ srs.y[i] = df.values[i][j]

C4_Witness ==
    /\ Done("plot_df")
    /\ args.df = ScenarioA
    /\ Len(ret.series) = 1
    /\ ret.series[1].legend = Text(<<"a">>)
    /\ ret.series[1].y = <<Whole(1), Whole(-1)>>
    /\ ret.series[1].info[2] =
         Text(<<"0", "2", "/", "0", "1", "/", "2", "0", "2", "0", " ",
                "0", "0", ":", "0", "0", ":", "0", "0">>)

\* The spellings of 'heatmap' in any mix of cases.
HeatmapLetters ==
    <<{"h", "H"}, {"e", "E"}, {"a", "A"}, {"t", "T"}, {"m", "M"}, {"a", "A"},
      {"p", "P"}>>

SpellsHeatmap(token) ==
    /\ Len(token) = Len(HeatmapLetters)
    /\ \A k \in 1..Len(token) : token[k] \in HeatmapLetters[k]

\* C5: iplot takes the heatmap path exactly when plottype spells 'heatmap'
\* in any mix of cases; every other token takes the line path, and no
\* token makes the dispatch fail: the only error is the missing TMP.
C5_Dispatch ==
    Done("iplot") =>
        /\ (SpellsHeatmap(args.plottype) =>
              ret.plot = heatmap_df(args.self, args.tools))
        /\ (~SpellsHeatmap(args.plottype) =>
              ret.plot = plot_df(args.self, args.tools, args.style))
        /\ (ret.plot.kind = "heatmap" <=> SpellsHeatmap(args.plottype))
        /\ (ret.raised # "no" =>
              ~Truthy(args.jspath) /\ args.environ.TMP = None)

C5_Witness ==
    /\ Done("iplot")
    /\ args.plottype = <<"H", "e", "a", "t", "M", "a", "p">>
    /\ ret.plot.kind = "heatmap"
    /\ ret.raised = "no"

\* C6: in every record of the heatmap source the row label and the column
\* label are the text of the table's labels, whatever the labels are.
C6_LabelsAreText ==
    Done("heatmap_df") =>
        LET df == args.df
            src == ret.source
            C == Len(df.columns)
        IN  \A i \in RowsOf(df), j \in ColsOf(df) :
               LET k == (i - 1) * C + j
               IN  /\ src.x[k].t = "str"
                   /\ src.y[k].t = "str"
                   /\ src.x[k] = Str(df.index.vals[i])
                   /\ src.y[k] = Str(df.columns[j])

\* Python 2 order of str: by code point, a proper prefix first.
RECURSIVE CharsLess(_, _)
CharsLess(a, b) ==
    IF b = <<>> THEN FALSE
    ELSE IF a = <<>> THEN TRUE
    ELSE IF Head(a) # Head(b) THEN Ord(Head(a)) < Ord(Head(b))
    ELSE CharsLess(Tail(a), Tail(b))

\* Python 2 order of labels: numbers before strings.
LabelLess(a, b) ==
    IF a.t = "int" /\ b.t = "int" THEN a.i < b.i
    ELSE IF a.t = "int" THEN b.t = "str"
    ELSE IF b.t = "int" THEN FALSE
    ELSE CharsLess(a.s, b.s)

Elements(seq) == {seq[k] : k \in 1..Len(seq)}

SortedDistinct(seq) == \A a, b \in 1..Len(seq) : a < b => LabelLess(seq[a], seq[b])

\* C7 as stated: the x range is the set of row labels as text, the y range
\* the set of column labels, each without duplicates and in sorted order.
C7_RangesSortedDistinct ==
    Done("heatmap_df") =>
        /\ Elements(ret.x_range) = {Str(l) : l \in Elements(args.df.index.vals)}
        /\ SortedDistinct(ret.x_range)
        /\ Elements(ret.y_range) = Elements(args.df.columns)
        /\ SortedDistinct(ret.y_range)

\* C7 amended: the x range is the row labels as text in table row order,
\* repeats kept, and the y range is the column labels in reverse table
\* column order.
C7_RangesInTableOrder ==
    Done("heatmap_df") =>
        LET df == args.df
            C == Len(df.columns)
        IN  /\ Len(ret.x_range) = Len(df.index.vals)
            /\ \A i \in RowsOf(df) : ret.x_range[i] = Str(df.index.vals[i])
            /\ Len(ret.y_range) = C
            /\ \A j \in ColsOf(df) : ret.y_range[j] = df.columns[C + 1 - j]

C7_Witness ==
    /\ Done("heatmap_df")
    /\ args.df.index.vals = <<IntLabel(1), IntLabel(1)>>
    /\ args.df.columns = <<Text(<<"a">>), Text(<<"x">>)>>
    /\ ret.x_range = <<Text(<<"1">>), Text(<<"1">>)>>
    /\ ret.y_range = <<Text(<<"x">>), Text(<<"a">>)>>

Supplied(columns) == IF columns = None THEN <<>> ELSE columns.items

\* C8: the table built by RandomDataFrame has exactly C columns: the
\* supplied names first, in their order and cut to C, then col<i> for
\* every further position i, counted from zero.
C8_ColumnsAdjust ==
    Done("RandomDataFrame") =>
        LET C == args.size[2]
            sup == Supplied(args.columns)
        IN  /\ Len(ret.columns) = C
            /\ \A j \in 1..C :
                 ret.columns[j] = IF j <= Len(sup) THEN sup[j]
                                  ELSE Text(<<"c", "o", "l">> \o StrInt(j - 1))
            /\ \A row \in Elements(ret.values) : Len(row) = C

C8_Witness ==
    /\ Done("RandomDataFrame")
    /\ args.columns = List(<<Text(<<"A">>), Text(<<"c", "o", "l", "1">>)>>)
    /\ args.size = <<2, 1>>
    /\ ret.columns = <<Text(<<"A">>)>>

\* C9 as stated: setcol returns one of the three colours for every float,
\* the negative colour only for a finite value below zero, so that both
\* infinities get the non-negative colour.
C9_NegativeOnlyFinite ==
    Done("setcol") =>
        /\ ret \in {Missing, Negative, NonNegative}
        /\ (ret = Negative => args.x.cls = "fin" /\ args.x.v < 0)
        /\ (args.x.cls = "inf" => ret = NonNegative)

\* C9 amended: setcol returns one of the three colours for every float,
\* the negative colour exactly for the values below zero, minus infinity
\* among them; plus infinity gets the non-negative colour.
C9_NegativeBelowZero ==
    Done("setcol") =>
        /\ ret \in {Missing, Negative, NonNegative}
        /\ (ret = Negative <=>
              (args.x.cls = "fin" /\ args.x.v < 0) \/ args.x = Inf(-1))
        /\ (args.x = Inf(1) => ret = NonNegative)
        /\ (ret = Missing <=> args.x = NaN)

C9_Witness == Done("setcol") /\ args.x = Inf(-1) /\ ret = Negative

\* C10: when the supplied column names are pairwise distinct, or none are
\* supplied, the column names of the table built are pairwise distinct.
C10_ColumnsDistinct ==
    Done("RandomDataFrame") =>
        (Injective(Supplied(args.columns)) => Injective(ret.columns))

====
